---- MODULE Spec2Model ----
(***************************************************************************)
(* Model of csim.c, a set-associative cache simulator with LRU            *)
(* replacement and dirty-byte accounting.                                  *)
(*                                                                         *)
(* An unsigned long is modelled as the set of the positions of its 1 bits  *)
(* (a subset of 0..ADDR_BITS-1), so that the shifts of isInCache lose the  *)
(* bits the 64-bit shifts lose.  The state is the Cache struct, the        *)
(* csim_stats_t accumulator and the locals of incrementStats.              *)
(***************************************************************************)
EXTENDS Integers, Sequences, FiniteSets, TLC

VARIABLES s, E, b, cache, stats, linenum, outcome, instruction, address,
          trace, pc,
          lastTag,    \* isInCache's local tag in its last call
          lastSet,    \* isInCache's local set in its last call
          outcomes,   \* the outcome array after each call so far, in order
          oob,        \* a line slot outside the allocated lines was used
          twin        \* a second cache, outcome buffer and stats, replayed
                      \* in step with the first (only in SpecTwin)

vars == <<s, E, b, cache, stats, linenum, outcome, instruction, address,
          trace, pc, lastTag, lastSet, outcomes, oob, twin>>

\* ------------------------------------------------------------------ bounds
MaxS == 1         \* largest number of set-index bits tried
MaxE == 2         \* largest associativity tried
MaxRecords == 4   \* longest trace replayed
MaxFaultyRecords == 2   \* longest trace replayed on a cache with E = 0

\* ------------------------------------------------------- program constants
STATNUM == 5
ADDR_BITS == 64

\* Block-offset widths tried for cache->b.
BValues == {0, 3}

\* --------------------------------------------------------- unsigned long
\* The word whose value is the natural number n (n < 2^31).
Word(n) == {i \in 0..30 : (n \div (2^i)) % 2 = 1}

RECURSIVE ToNat(_)
\* The value of a word whose 1 bits all lie below bit 31.
ToNat(w) == IF w = {} THEN 0
            ELSE LET i == CHOOSE x \in w : TRUE
                 IN  2^i + ToNat(w \ {i})

\* w >> k on ADDR_BITS-bit words, 0 <= k < ADDR_BITS.
ShiftRight(w, k) == {i - k : i \in {j \in w : j >= k}}

\* w << k on ADDR_BITS-bit words, 0 <= k < ADDR_BITS: high bits fall off.
ShiftLeft(w, k) == {i + k : i \in {j \in w : j + k < ADDR_BITS}}

\* Addresses the trace may hold.
Addresses == {Word(0), Word(8), Word(16), {ADDR_BITS - 1}}

\* Operations the trace may hold.
Operations == {"L", "S"}

\* cache->S and cache->B, set by main as 1 << s and 1 << b.
S == 2^s
B == 2^b

\* --------------------------------------------------------------- makeCache
NewLine == [validbit |-> FALSE, tagbits |-> {}, dirtybit |-> FALSE,
            timestamp |-> 0]

makeCache(nsets, nlines) == [i \in 0..(nsets - 1) |-> [j \in 0..(nlines - 1) |-> NewLine]]

ZeroStats == [hits |-> 0, misses |-> 0, evictions |-> 0, dirty_bytes |-> 0,
              dirty_evictions |-> 0]

\* --------------------------------------------------------------- isInCache
\* tag = address >> tagshift.
TagOf(addr) == ShiftRight(addr, s + b)

\* The values address >> tagshift can take.  With s + b = ADDR_BITS the
\* shift is by the full width, which is undefined: a build either masks the
\* shift count to 6 bits (the tag is then the whole address) or yields 0.
TagShift(addr) ==
    IF s + b >= ADDR_BITS
    THEN {ShiftRight(addr, (s + b) % ADDR_BITS), {}}
    ELSE {TagOf(addr)}

\* The values (address << (ADDR_BITS - s - b)) >> (ADDR_BITS - s) can take.
\* With s = 0 the right shift is by the full width, which is undefined: a
\* build either masks the shift counts to 6 bits or yields 0.
SetShift(addr) ==
    IF s = 0
    THEN {ShiftRight(ShiftLeft(addr, (ADDR_BITS - s - b) % ADDR_BITS),
                     (ADDR_BITS - s) % ADDR_BITS), {}}
    ELSE {ShiftRight(ShiftLeft(addr, ADDR_BITS - s - b), ADDR_BITS - s)}

\* The set index used: the shifted value, replaced by 0 when s = 0.
SetOf(raw) == IF s = 0 THEN 0 ELSE ToNat(raw)

RECURSIVE Scan_OffByOne(_, _, _, _, _)
\* Scan with the loop condition i < E - 1: the last line is never examined.
Scan_OffByOne(lines, tag, i, oldest, index) ==
    IF i >= E - 1
    THEN [hit |-> FALSE, notFull |-> FALSE, index |-> index]
    ELSE IF lines[i].tagbits = tag /\ lines[i].validbit
    THEN [hit |-> TRUE, notFull |-> FALSE, index |-> i]
    ELSE IF ~lines[i].validbit
    THEN [hit |-> FALSE, notFull |-> TRUE, index |-> i]
    ELSE IF lines[i].timestamp < oldest
    THEN Scan_OffByOne(lines, tag, i + 1, lines[i].timestamp, i)
    ELSE Scan_OffByOne(lines, tag, i + 1, oldest, index)

RECURSIVE Scan_Newest(_, _, _, _, _)
\* Scan with the victim comparison reversed (timestamp > oldest).
Scan_Newest(lines, tag, i, oldest, index) ==
    IF i >= E
    THEN [hit |-> FALSE, notFull |-> FALSE, index |-> index]
    ELSE IF lines[i].tagbits = tag /\ lines[i].validbit
    THEN [hit |-> TRUE, notFull |-> FALSE, index |-> i]
    ELSE IF ~lines[i].validbit
    THEN [hit |-> FALSE, notFull |-> TRUE, index |-> i]
    ELSE IF lines[i].timestamp > oldest
    THEN Scan_Newest(lines, tag, i + 1, lines[i].timestamp, i)
    ELSE Scan_Newest(lines, tag, i + 1, oldest, index)

RECURSIVE Scan_NoBreak(_, _, _, _, _)
\* Scan without the break of the cold-miss branch: the loop goes on, and the
\* last invalid line seen is the one filled.
Scan_NoBreak(lines, tag, i, oldest, index) ==
    IF i >= E
    THEN [hit |-> FALSE, notFull |-> FALSE, index |-> index]
    ELSE IF lines[i].tagbits = tag /\ lines[i].validbit
    THEN [hit |-> TRUE, notFull |-> FALSE, index |-> i]
    ELSE IF ~lines[i].validbit
    THEN LET rest == Scan_NoBreak(lines, tag, i + 1, oldest, i)
         IN  IF rest.hit THEN rest
             ELSE [hit |-> FALSE, notFull |-> TRUE, index |-> rest.index]
    ELSE IF lines[i].timestamp < oldest
    THEN Scan_NoBreak(lines, tag, i + 1, lines[i].timestamp, i)
    ELSE Scan_NoBreak(lines, tag, i + 1, oldest, index)

RECURSIVE Scan(_, _, _, _, _)
\* The for loop over the lines of one set, from line i on.
Scan(lines, tag, i, oldest, index) ==
    IF i >= E
    THEN [hit |-> FALSE, notFull |-> FALSE, index |-> index]
    ELSE IF lines[i].tagbits = tag /\ lines[i].validbit
    THEN [hit |-> TRUE, notFull |-> FALSE, index |-> i]
    ELSE IF ~lines[i].validbit
    THEN [hit |-> FALSE, notFull |-> TRUE, index |-> i]
    ELSE IF lines[i].timestamp < oldest
    THEN Scan(lines, tag, i + 1, lines[i].timestamp, i)
    ELSE Scan(lines, tag, i + 1, oldest, index)

\* HitLine without the assignment timestamp = num.
HitLine_NoTouch(line, op, num) ==
    [line EXCEPT !.dirtybit = IF op = "S" /\ ~line.dirtybit THEN TRUE ELSE @]

\* The hit branch of the loop body: line i of the set is touched.
HitLine(line, op, num) ==
    [line EXCEPT !.timestamp = num,
                 !.dirtybit = IF op = "S" /\ ~line.dirtybit THEN TRUE ELSE @]

\* HitResult without the dirtybit == false guard.
HitResult_NoGuard(line, op, result) ==
    [result EXCEPT ![0] = TRUE,
                   ![3] = IF op = "S" THEN TRUE ELSE @]

\* HitResult with the return missing: control reaches result[1] = true.
HitResult_NoReturn(line, op, result) ==
    [result EXCEPT ![0] = TRUE,
                   ![1] = TRUE,
                   ![3] = IF op = "S" /\ ~line.dirtybit THEN TRUE ELSE @]

HitResult(line, op, result) ==
    [result EXCEPT ![0] = TRUE,
                   ![3] = IF op = "S" /\ ~line.dirtybit THEN TRUE ELSE @]

\* MissLine without the assignment validbit = 1.
MissLine_NoValid(line, tag, notFull, op, num) ==
    [validbit |-> line.validbit,
     tagbits |-> tag,
     dirtybit |-> IF op = "S" THEN TRUE
                  ELSE IF notFull THEN line.dirtybit
                  ELSE FALSE,
     timestamp |-> num]

\* MissLine without the assignment tagbits = tag.
MissLine_NoTag(line, tag, notFull, op, num) ==
    [validbit |-> IF notFull THEN TRUE ELSE line.validbit,
     tagbits |-> line.tagbits,
     dirtybit |-> IF op = "S" THEN TRUE
                  ELSE IF notFull THEN line.dirtybit
                  ELSE FALSE,
     timestamp |-> num]

\* MissLine without the assignment timestamp = num.
MissLine_NoStamp(line, tag, notFull, op, num) ==
    [validbit |-> IF notFull THEN TRUE ELSE line.validbit,
     tagbits |-> tag,
     dirtybit |-> IF op = "S" THEN TRUE
                  ELSE IF notFull THEN line.dirtybit
                  ELSE FALSE,
     timestamp |-> line.timestamp]

\* The code after the loop: the line at index is filled or replaced.
MissLine(line, tag, notFull, op, num) ==
    [validbit |-> IF notFull THEN TRUE ELSE line.validbit,
     tagbits |-> tag,
     dirtybit |-> IF op = "S" THEN TRUE
                  ELSE IF notFull THEN line.dirtybit
                  ELSE FALSE,
     timestamp |-> num]

\* MissResult with result[0] written where result[1] is meant.
MissResult_WrongIndex(line, notFull, op, result) ==
    [result EXCEPT ![0] = TRUE,
                   ![2] = IF notFull THEN @ ELSE TRUE,
                   ![4] = IF ~notFull /\ line.dirtybit THEN TRUE ELSE @,
                   ![3] = IF op = "S" THEN TRUE ELSE @]

\* MissResult with result[2] = true moved inside the dirtybit test.
MissResult_EvictOnlyDirty(line, notFull, op, result) ==
    [result EXCEPT ![1] = TRUE,
                   ![2] = IF ~notFull /\ line.dirtybit THEN TRUE ELSE @,
                   ![4] = IF ~notFull /\ line.dirtybit THEN TRUE ELSE @,
                   ![3] = IF op = "S" THEN TRUE ELSE @]

MissResult(line, notFull, op, result) ==
    [result EXCEPT ![1] = TRUE,
                   ![2] = IF notFull THEN @ ELSE TRUE,
                   ![4] = IF ~notFull /\ line.dirtybit THEN TRUE ELSE @,
                   ![3] = IF op = "S" THEN TRUE ELSE @]

\* isInCache with break where the hit branch returns: after a hit the code
\* after the loop runs too, on the line index held when the hit was found
\* (the oldest of the lines before the hit line, line 0 if there is none).
isInCache_Break(addr, raw, c, op, num, result) ==
    LET tag == TagOf(addr)
        set == SetOf(raw)
        r   == Scan(c[set], tag, 0, num, 0)
        old == c[set][r.index]
        idx == IF r.index = 0 THEN 0
               ELSE CHOOSE v \in 0..(r.index - 1) :
                      \A j \in 0..(r.index - 1) :
                        \/ c[set][v].timestamp < c[set][j].timestamp
                        \/ (c[set][v].timestamp = c[set][j].timestamp /\ v <= j)
        hitc == [c EXCEPT ![set][r.index] = HitLine(old, op, num)]
    IN  IF r.hit
        THEN [cache  |-> [hitc EXCEPT ![set][idx] =
                            MissLine(hitc[set][idx], tag, FALSE, op, num)],
              result |-> MissResult(hitc[set][idx], FALSE, op,
                                    HitResult(old, op, result))]
        ELSE [cache  |-> [c EXCEPT ![set][r.index] =
                                      MissLine(old, tag, r.notFull, op, num)],
              result |-> MissResult(old, r.notFull, op, result)]

\* isInCache: the cache and *result after the call.
isInCache(addr, raw, c, op, num, result) ==
    LET tag == TagOf(addr)
        set == SetOf(raw)
        r   == Scan(c[set], tag, 0, num, 0)
        old == c[set][r.index]
    IN  IF r.hit
        THEN [cache  |-> [c EXCEPT ![set][r.index] = HitLine(old, op, num)],
              result |-> HitResult(old, op, result)]
        ELSE [cache  |-> [c EXCEPT ![set][r.index] =
                                      MissLine(old, tag, r.notFull, op, num)],
              result |-> MissResult(old, r.notFull, op, result)]

\* ---------------------------------------------------------- incrementStats
\* The loop head without the reset of outcome.
ResetOutcome_Skip(out) == out

\* outcome reset to false at the head of each iteration.
ResetOutcome(out) == [i \in 0..(STATNUM - 1) |-> FALSE]

\* FoldStats without dirty_bytes -= B.
FoldStats_NoSubtract(st, out) ==
    [hits |-> IF out[0] THEN st.hits + 1 ELSE st.hits,
     misses |-> IF out[1] THEN st.misses + 1 ELSE st.misses,
     evictions |-> IF out[2] THEN st.evictions + 1 ELSE st.evictions,
     dirty_bytes |-> IF out[3] THEN st.dirty_bytes + B ELSE st.dirty_bytes,
     dirty_evictions |-> IF out[4] THEN st.dirty_evictions + B
                         ELSE st.dirty_evictions]

\* FoldStats with the outcome[4] test chained as else-if after outcome[3].
FoldStats_ElseIf(st, out) ==
    [hits |-> IF out[0] THEN st.hits + 1 ELSE st.hits,
     misses |-> IF out[1] THEN st.misses + 1 ELSE st.misses,
     evictions |-> IF out[2] THEN st.evictions + 1 ELSE st.evictions,
     dirty_bytes |-> IF out[3] THEN st.dirty_bytes + B
                     ELSE IF out[4] THEN st.dirty_bytes - B
                     ELSE st.dirty_bytes,
     dirty_evictions |-> IF ~out[3] /\ out[4] THEN st.dirty_evictions + B
                         ELSE st.dirty_evictions]

\* FoldStats with dirty_evictions += B under the outcome[2] test.
FoldStats_CountAllEvictions(st, out) ==
    [hits |-> IF out[0] THEN st.hits + 1 ELSE st.hits,
     misses |-> IF out[1] THEN st.misses + 1 ELSE st.misses,
     evictions |-> IF out[2] THEN st.evictions + 1 ELSE st.evictions,
     dirty_bytes |-> (IF out[3] THEN st.dirty_bytes + B ELSE st.dirty_bytes)
                     - (IF out[4] THEN B ELSE 0),
     dirty_evictions |-> IF out[2] THEN st.dirty_evictions + B
                         ELSE st.dirty_evictions]

\* The five if statements folding outcome into stats.
FoldStats(st, out) ==
    LET hits == IF out[0] THEN st.hits + 1 ELSE st.hits
        misses == IF out[1] THEN st.misses + 1 ELSE st.misses
        evictions == IF out[2] THEN st.evictions + 1 ELSE st.evictions
        db3 == IF out[3] THEN st.dirty_bytes + B ELSE st.dirty_bytes
        dirty_evictions == IF out[4] THEN st.dirty_evictions + B
                           ELSE st.dirty_evictions
        dirty_bytes == IF out[4] THEN db3 - B ELSE db3
    IN  [hits |-> hits, misses |-> misses, evictions |-> evictions,
         dirty_bytes |-> dirty_bytes, dirty_evictions |-> dirty_evictions]

\* main up to the call of incrementStats, and incrementStats up to its loop:
\* geometry from the command line, makeCache, zeroed stats, outcome freshly
\* allocated (its contents are indeterminate), linenum = 0.
Init ==
    /\ s \in 0..MaxS
    /\ E \in 1..MaxE
    /\ b \in BValues
    /\ cache = makeCache(2^s, E)
    /\ stats = ZeroStats
    /\ linenum = 0
    /\ outcome \in [0..(STATNUM - 1) -> BOOLEAN]
    /\ instruction = "L"
    /\ address = {}
    /\ trace = <<>>
    /\ pc = "replay"
    /\ lastTag = {}
    /\ lastSet = 0
    /\ outcomes = <<>>
    /\ oob = FALSE
    /\ twin = "none"

\* One iteration of the while loop: fscanf yields a record.
Replay ==
    /\ pc = "replay"
    /\ linenum < MaxRecords
    /\ \E op \in Operations, addr \in Addresses :
         \E raw \in SetShift(addr) :
           LET r == isInCache(addr, raw, cache, op, linenum,
                                ResetOutcome(outcome))
           IN  /\ instruction' = op
               /\ lastTag' = TagOf(addr)
               /\ lastSet' = SetOf(raw)
               /\ outcomes' = Append(outcomes, r.result)
               /\ address' = addr
               /\ cache' = r.cache
               /\ outcome' = r.result
               /\ stats' = FoldStats(stats, r.result)
               /\ trace' = Append(trace, [op |-> op, addr |-> addr])
    /\ linenum' = linenum + 1
    /\ UNCHANGED <<s, E, b, pc, oob, twin>>

\* fscanf returns <= 0: the loop ends and incrementStats returns.
EndOfTrace ==
    /\ pc = "replay"
    /\ pc' = "done"
    /\ UNCHANGED <<s, E, b, cache, stats, linenum, outcome, instruction,
                   address, trace, lastTag, lastSet, outcomes, oob, twin>>

Next == Replay \/ EndOfTrace

Spec == Init /\ [][Next]_vars

\* ------------------------------------------- address decomposition alone
\* Set-index and block-offset widths up to the full address width.
DecompSValues == {0, 1, 2, 4}
DecompBValues == {0, 3, 60, 62, 63, 64}

\* Addresses with low, middle and high bits set.
DecompAddresses == {{}, Word(8), Word(9), Word(24), {ADDR_BITS - 1},
                    {3, 62}, {0, 4, 60, 61}, 0..(ADDR_BITS - 1)}

\* isInCache entered with an address, on a geometry with s + b <= ADDR_BITS.
InitDecomp ==
    /\ s \in DecompSValues
    /\ b \in DecompBValues
    /\ s + b <= ADDR_BITS
    /\ E = 1
    /\ cache = makeCache(2^s, E)
    /\ stats = ZeroStats
    /\ linenum = 0
    /\ outcome = [i \in 0..(STATNUM - 1) |-> FALSE]
    /\ instruction = "L"
    /\ address \in DecompAddresses
    /\ trace = <<>>
    /\ pc = "decompose"
    /\ lastTag = {}
    /\ lastSet = 0
    /\ outcomes = <<>>
    /\ oob = FALSE
    /\ twin = "none"

\* The first statements of isInCache: tag and set are computed.
Decompose ==
    /\ pc = "decompose"
    /\ \E t \in TagShift(address), raw \in SetShift(address) :
         /\ lastTag' = t
         /\ lastSet' = SetOf(raw)
    /\ pc' = "decomposed"
    /\ UNCHANGED <<s, E, b, cache, stats, linenum, outcome, instruction,
                   address, trace, outcomes, oob, twin>>

NextDecomp == Decompose

SpecDecomp == InitDecomp /\ [][NextDecomp]_vars

\* ------------------------------------------------------ geometry E = 0
\* main with -E 0: no check is made, makeCache allocates S arrays of zero
\* lines and incrementStats is entered.
InitZeroE ==
    /\ s \in 0..MaxS
    /\ E = 0
    /\ b \in BValues
    /\ cache = makeCache(2^s, E)
    /\ stats = ZeroStats
    /\ linenum = 0
    /\ outcome \in [0..(STATNUM - 1) -> BOOLEAN]
    /\ instruction = "L"
    /\ address = {}
    /\ trace = <<>>
    /\ pc = "replay"
    /\ lastTag = {}
    /\ lastSet = 0
    /\ outcomes = <<>>
    /\ oob = FALSE
    /\ twin = "none"

\* One iteration of the while loop with E = 0.  The for loop of isInCache
\* runs no iteration, so index = 0 and notFull = false, and the code after
\* the loop writes timestamp and tagbits of lines[0] and reads its dirtybit:
\* a slot outside the zero-length array, whose dirtybit is indeterminate.
\* The writes land outside the modelled arrays.
ReplayZeroE ==
    /\ pc = "replay"
    /\ E = 0
    /\ linenum < MaxFaultyRecords
    /\ \E op \in Operations, addr \in Addresses :
         \E raw \in SetShift(addr), garbage \in BOOLEAN :
           LET r == Scan(cache[SetOf(raw)], TagOf(addr), 0, linenum, 0)
               result == MissResult([dirtybit |-> garbage], r.notFull, op,
                                    ResetOutcome(outcome))
           IN  /\ ~r.hit
               /\ r.index \notin DOMAIN cache[SetOf(raw)]
               /\ instruction' = op
               /\ address' = addr
               /\ lastTag' = TagOf(addr)
               /\ lastSet' = SetOf(raw)
               /\ outcome' = result
               /\ outcomes' = Append(outcomes, result)
               /\ stats' = FoldStats(stats, result)
               /\ trace' = Append(trace, [op |-> op, addr |-> addr])
    /\ oob' = TRUE
    /\ linenum' = linenum + 1
    /\ UNCHANGED <<s, E, b, cache, pc, twin>>

\* After a write outside the allocation the process may be ended (the
\* allocator or the hardware detects it).
Fault ==
    /\ pc = "replay"
    /\ oob
    /\ pc' = "crashed"
    /\ UNCHANGED <<s, E, b, cache, stats, linenum, outcome, instruction,
                   address, trace, lastTag, lastSet, outcomes, oob, twin>>

NextZeroE == ReplayZeroE \/ Fault \/ EndOfTrace

SpecZeroE == InitZeroE /\ [][NextZeroE]_vars

\* ------------------------------------------- two caches, one access sequence
\* main run twice on the same geometry: two makeCache calls, two zeroed
\* stats, two freshly allocated outcome buffers (each indeterminate).
InitTwin ==
    /\ s \in 0..MaxS
    /\ E \in 1..MaxE
    /\ b \in BValues
    /\ cache = makeCache(2^s, E)
    /\ stats = ZeroStats
    /\ linenum = 0
    /\ outcome \in [0..(STATNUM - 1) -> BOOLEAN]
    /\ instruction = "L"
    /\ address = {}
    /\ trace = <<>>
    /\ pc = "replay"
    /\ lastTag = {}
    /\ lastSet = 0
    /\ outcomes = <<>>
    /\ oob = FALSE
    /\ \E out2 \in [0..(STATNUM - 1) -> BOOLEAN] :
         twin = [cache |-> makeCache(2^s, E), stats |-> ZeroStats,
                 outcome |-> out2, linenum |-> 0]

\* One iteration of the while loop in each of the two runs, on the same
\* record; each run's build takes its own value for the undefined shift.
ReplayTwin ==
    /\ pc = "replay"
    /\ linenum < MaxRecords
    /\ \E op \in Operations, addr \in Addresses :
         \E raw \in SetShift(addr), raw2 \in SetShift(addr) :
           LET r  == isInCache(addr, raw, cache, op, linenum,
                               ResetOutcome(outcome))
               r2 == isInCache(addr, raw2, twin.cache, op, twin.linenum,
                               ResetOutcome(twin.outcome))
           IN  /\ instruction' = op
               /\ address' = addr
               /\ lastTag' = TagOf(addr)
               /\ lastSet' = SetOf(raw)
               /\ outcomes' = Append(outcomes, r.result)
               /\ cache' = r.cache
               /\ outcome' = r.result
               /\ stats' = FoldStats(stats, r.result)
               /\ trace' = Append(trace, [op |-> op, addr |-> addr])
               /\ twin' = [cache |-> r2.cache,
                           stats |-> FoldStats(twin.stats, r2.result),
                           outcome |-> r2.result,
                           linenum |-> twin.linenum + 1]
    /\ linenum' = linenum + 1
    /\ UNCHANGED <<s, E, b, pc, oob>>

NextTwin == ReplayTwin \/ EndOfTrace

SpecTwin == InitTwin /\ [][NextTwin]_vars

\* ================================================================ claims
\* The set index isInCache uses for addr (one value whatever the build).
SetIndex(addr) == SetOf(CHOOSE raw \in SetShift(addr) : TRUE)

\* The step is one iteration of the replay loop.
ReplayStep == linenum' = linenum + 1

\* The lines of the whole cache that are valid and dirty.
DirtyLines == {p \in (0..(S - 1)) \X (0..(E - 1)) :
                 cache[p[1]][p[2]].validbit /\ cache[p[1]][p[2]].dirtybit}

\* The positions (0-based) of the records read so far that touch the block
\* (set, tag).
UsesOf(set, tag) == {k \in 0..(Len(trace) - 1) :
                       /\ SetIndex(trace[k + 1].addr) = set
                       /\ TagOf(trace[k + 1].addr) = tag}

\* The position of the most recent access to the block (set, tag).
LastUse(set, tag) == CHOOSE k \in UsesOf(set, tag) :
                       \A m \in UsesOf(set, tag) : m <= k

\* The tags of the records read so far that map to set.
TagsMapped(set) == {TagOf(trace[k].addr) :
                      k \in {m \in 1..Len(trace) : SetIndex(trace[m].addr) = set}}

\* Every line of set is valid.
FullSet(set) == \A i \in 0..(E - 1) : cache[set][i].validbit

\* Some valid line of set carries tag.
Resident(set, tag) == \E i \in 0..(E - 1) :
                        cache[set][i].validbit /\ cache[set][i].tagbits = tag

\* C1: at every point of the replay dirty_bytes is >= 0 and equals B times
\* the number of lines of the whole cache that are valid and dirty.
C1_DirtyBytes ==
    /\ stats.dirty_bytes >= 0
    /\ stats.dirty_bytes = B * Cardinality(DirtyLines)

\* C1 witness: a dirty line was evicted and a dirty line is resident.
C1_Witness ==
    /\ stats.dirty_evictions > 0
    /\ Cardinality(DirtyLines) > 0
    /\ stats.dirty_bytes = B * Cardinality(DirtyLines)

\* C2: a miss in a full set replaces the line with the smallest timestamp of
\* the set, which is the line whose most recent access is the oldest; the
\* other lines of the set are left as they were.
C2_LRUVictim ==
    [][(/\ ReplayStep
        /\ FullSet(SetIndex(address'))
        /\ outcome'[1])
       => LET set == SetIndex(address')
          IN  \E v \in 0..(E - 1) :
                /\ cache'[set][v].tagbits = TagOf(address')
                /\ cache'[set][v].timestamp = linenum
                /\ cache[set][v].tagbits # TagOf(address')
                /\ outcome'[2]
                /\ \A j \in (0..(E - 1)) \ {v} :
                     /\ cache[set][v].timestamp < cache[set][j].timestamp
                     /\ LastUse(set, cache[set][v].tagbits)
                          < LastUse(set, cache[set][j].tagbits)
                     /\ cache'[set][j] = cache[set][j]]_vars

\* C2 witness: in a set of at least two lines, line 1 was the victim, so a
\* line filled earlier had been used more recently.
C2_Witness ==
    /\ linenum > 0
    /\ E >= 2
    /\ outcome[2]
    /\ cache[SetIndex(address)][1].timestamp = linenum - 1
    /\ stats.hits > 0

\* C3: each call signals exactly one of hit and miss, and hits + misses is
\* the number of records processed so far.
C3_HitXorMiss ==
    /\ linenum > 0 => (outcome[0] # outcome[1])
    /\ stats.hits + stats.misses = linenum
    /\ linenum = Len(trace)

\* C3 witness: hits and misses have both been counted.
C3_Witness ==
    /\ linenum >= 3
    /\ stats.hits > 0
    /\ stats.misses > 0
    /\ stats.hits + stats.misses = linenum

\* Trace records.
Load(n) == [op |-> "L", addr |-> Word(n)]
Store(n) == [op |-> "S", addr |-> Word(n)]

\* C4 as stated: E = 1, s = 0, b = 0 and [Load 0x0, Load 0x8, Load 0x0] end
\* with hits = 0, misses = 3, evictions = 1.
C4_Original ==
    (s = 0 /\ E = 1 /\ b = 0 /\ trace = <<Load(0), Load(8), Load(0)>>)
      => (stats.hits = 0 /\ stats.misses = 3 /\ stats.evictions = 1)

\* C4 amended: E = 1, s = 0, b = 0 and [Load 0x0, Load 0x8, Load 0x0] end
\* with hits = 0, misses = 3, evictions = 2 (the second and the third load
\* each replace the single line).
C4_ThreeLoads ==
    (s = 0 /\ E = 1 /\ b = 0 /\ trace = <<Load(0), Load(8), Load(0)>>)
      => (stats.hits = 0 /\ stats.misses = 3 /\ stats.evictions = 2)

\* C4 witness: the three loads have been replayed on that geometry.
C4_Witness ==
    /\ s = 0 /\ E = 1 /\ b = 0
    /\ trace = <<Load(0), Load(8), Load(0)>>
    /\ stats.evictions = 2

\* The blocks (set, tag) touched by the records read so far.
BlocksTouched == {<<SetIndex(trace[k].addr), TagOf(trace[k].addr)>> :
                    k \in 1..Len(trace)}

\* C5: while no set has had more than E distinct tags mapped to it,
\* evictions is 0, each distinct block has missed exactly once and every
\* block touched is still resident.
C5_NoEvictionWithinCapacity ==
    (\A set \in 0..(S - 1) : Cardinality(TagsMapped(set)) <= E)
      => /\ stats.evictions = 0
         /\ stats.misses = Cardinality(BlocksTouched)
         /\ \A blk \in BlocksTouched : Resident(blk[1], blk[2])

\* C5 witness: a set of at least two lines holds exactly E tags, one of
\* them accessed again.
C5_Witness ==
    /\ E >= 2
    /\ \A set \in 0..(S - 1) : Cardinality(TagsMapped(set)) <= E
    /\ \E set \in 0..(S - 1) : Cardinality(TagsMapped(set)) = E
    /\ stats.hits > 0
    /\ stats.evictions = 0

\* C6: evictions <= misses, and a call that signals eviction signals miss
\* and does not signal hit.
C6_EvictionOnlyOnMiss ==
    /\ stats.evictions <= stats.misses
    /\ linenum > 0 => (outcome[2] => (outcome[1] /\ ~outcome[0]))

\* C6 witness: fewer evictions than misses, after a call that evicted and
\* after a hit.
C6_Witness ==
    /\ linenum > 0
    /\ outcome[2] /\ outcome[1]
    /\ stats.hits > 0
    /\ 0 < stats.evictions
    /\ stats.evictions < stats.misses

\* The positions (1-based) of the records read so far that map to set.
RecordsOfSet(set) == {k \in 1..Len(trace) : SetIndex(trace[k].addr) = set}

\* The position of the last record read that maps to set.
LastOfSet(set) == CHOOSE k \in RecordsOfSet(set) :
                    \A m \in RecordsOfSet(set) : m <= k

\* C7: an access to the address A of the last access that mapped to A's set
\* is a hit, whatever the two operations and however many accesses to other
\* sets lie between.
C7_RepeatHits ==
    [][(/\ ReplayStep
        /\ RecordsOfSet(SetIndex(address')) # {}
        /\ trace[LastOfSet(SetIndex(address'))].addr = address')
       => (outcome'[0] /\ ~outcome'[1]
           /\ stats'.hits = stats.hits + 1)]_vars

\* C7 witness: a hit on the address of the record before last, the record
\* between mapping to another set and the two operations differing.
C7_Witness ==
    /\ Len(trace) >= 3
    /\ outcome[0]
    /\ trace[Len(trace)].addr = trace[Len(trace) - 2].addr
    /\ trace[Len(trace)].op # trace[Len(trace) - 2].op
    /\ SetIndex(trace[Len(trace) - 1].addr) # SetIndex(trace[Len(trace)].addr)

\* The line of a full set with the smallest timestamp.
OldestLine(set) == CHOOSE v \in 0..(E - 1) :
                     \A j \in 0..(E - 1) :
                       cache[set][v].timestamp <= cache[set][j].timestamp

\* C8: a Store that misses in a full set whose oldest line is dirty signals
\* miss, eviction, evicted_dirty and became_dirty and no hit; dirty_evictions
\* grows by B, dirty_bytes is unchanged and the line placed is dirty.  With
\* E = 1, s = 0, b = 3, [Store 0x0, Store 0x8] ends with misses = 2,
\* evictions = 1, dirty_evictions = 8, dirty_bytes = 8.
C8_StoreEvictsDirty ==
    [][ReplayStep =>
        /\ (/\ instruction' = "S"
            /\ FullSet(SetIndex(address'))
            /\ ~Resident(SetIndex(address'), TagOf(address'))
            /\ cache[SetIndex(address')][OldestLine(SetIndex(address'))].dirtybit)
           => LET set == SetIndex(address')
                  v   == OldestLine(set)
              IN  /\ outcome' = [i \in 0..(STATNUM - 1) |-> i # 0]
                  /\ stats'.dirty_evictions = stats.dirty_evictions + B
                  /\ stats'.dirty_bytes = stats.dirty_bytes
                  /\ stats'.misses = stats.misses + 1
                  /\ stats'.evictions = stats.evictions + 1
                  /\ cache'[set][v].validbit
                  /\ cache'[set][v].tagbits = TagOf(address')
                  /\ cache'[set][v].dirtybit
        /\ (E = 1 /\ s = 0 /\ b = 3 /\ trace' = <<Store(0), Store(8)>>)
           => /\ stats'.misses = 2
              /\ stats'.evictions = 1
              /\ stats'.dirty_evictions = 8
              /\ stats'.dirty_bytes = 8]_vars

\* C8 witness: a Store has just evicted a dirty line from a set of at least
\* two lines.
C8_Witness ==
    /\ linenum > 0
    /\ E >= 2
    /\ instruction = "S"
    /\ outcome[1] /\ outcome[2] /\ outcome[3] /\ outcome[4]
    /\ stats.dirty_evictions > 0
    /\ stats.dirty_bytes > 0

\* The valid line of set that carries tag.
LineOf(set, tag) == CHOOSE i \in 0..(E - 1) :
                      cache[set][i].validbit /\ cache[set][i].tagbits = tag

\* C9: on a hit became_dirty is signaled exactly when the operation is Store
\* and the line was clean; otherwise the line's dirty bit and dirty_bytes
\* are unchanged.  With E = 2, s = 0, b = 3, [Store 0x0, Load 0x0] ends with
\* hits = 1, misses = 1, dirty_bytes = 8, dirty_evictions = 0.
C9_HitDirty ==
    [][ReplayStep =>
        /\ Resident(SetIndex(address'), TagOf(address'))
           => LET set == SetIndex(address')
                  h   == LineOf(set, TagOf(address'))
                  marks == instruction' = "S" /\ ~cache[set][h].dirtybit
              IN  /\ outcome'[0]
                  /\ outcome'[3] <=> marks
                  /\ marks => /\ cache'[set][h].dirtybit
                              /\ stats'.dirty_bytes = stats.dirty_bytes + B
                  /\ ~marks => /\ cache'[set][h].dirtybit = cache[set][h].dirtybit
                               /\ stats'.dirty_bytes = stats.dirty_bytes
                  /\ stats'.dirty_evictions = stats.dirty_evictions
        /\ (E = 2 /\ s = 0 /\ b = 3 /\ trace' = <<Store(0), Load(0)>>)
           => /\ stats'.hits = 1
              /\ stats'.misses = 1
              /\ stats'.dirty_bytes = 8
              /\ stats'.dirty_evictions = 0]_vars

\* C9 witness: a Store has just hit a line that was already dirty.
C9_Witness ==
    /\ linenum > 0
    /\ instruction = "S"
    /\ outcome[0]
    /\ ~outcome[3]
    /\ cache[SetIndex(address)][LineOf(SetIndex(address), TagOf(address))].dirtybit

\* C10: within each set no two valid lines carry the same tag.
C10_NoDuplicateTags ==
    \A set \in 0..(S - 1) :
      \A i, j \in 0..(E - 1) :
        (i # j /\ cache[set][i].validbit /\ cache[set][j].validbit)
          => cache[set][i].tagbits # cache[set][j].tagbits

\* C10 witness: a set holds two valid lines after an eviction and a hit.
C10_Witness ==
    /\ E >= 2
    /\ stats.evictions > 0
    /\ stats.hits > 0
    /\ \E set \in 0..(S - 1) : FullSet(set)

\* (address >> b) mod 2^s: the s bits of addr above its b offset bits.
MathSetIndex(addr) ==
    ToNat({i - b : i \in {j \in addr : j >= b /\ j < b + s}})

\* address >> (s + b) as a number: the bits of addr from bit s + b up.
MathTag(addr) == {i - (s + b) : i \in {j \in addr : j >= s + b}}

\* C11 as stated: for every geometry with s + b <= ADDR_BITS the set index
\* isInCache computes is (address >> b) mod 2^s, the tag is
\* address >> (s + b), and the set index is 0 when s = 0.
C11_Original ==
    pc = "decomposed"
      => /\ lastSet = MathSetIndex(address)
         /\ lastTag = MathTag(address)
         /\ s = 0 => lastSet = 0

\* C11 below the full width: with s + b < ADDR_BITS the set index and the
\* tag are the stated ones.
C11_BelowWidth ==
    (pc = "decomposed" /\ s + b < ADDR_BITS)
      => /\ lastSet = MathSetIndex(address)
         /\ lastTag = MathTag(address)
         /\ s = 0 => lastSet = 0

\* C11 set index alone: it is the stated one for every s + b <= ADDR_BITS.
C11_SetIndex ==
    pc = "decomposed"
      => /\ lastSet = MathSetIndex(address)
         /\ s = 0 => lastSet = 0

\* C12 as stated: with E = 0 no access is ever executed against the cache
\* and no line slot is read or written for it.
C12_Original ==
    E = 0 => (linenum = 0 /\ outcomes = <<>> /\ ~oob)

\* C13: two independently constructed caches of the same geometry replaying
\* the same sequence have the same cache contents and statistics at every
\* step, and the same outcome after every access.
C13_Deterministic ==
    /\ twin.cache = cache
    /\ twin.stats = stats
    /\ twin.linenum = linenum
    /\ linenum > 0 => twin.outcome = outcome

\* C13 witness: both runs have replayed a sequence with a hit, an eviction
\* and a dirty eviction on a geometry whose set-index shift is undefined.
C13_Witness ==
    /\ s = 0
    /\ linenum >= 3
    /\ stats.hits > 0
    /\ stats.dirty_evictions > 0
    /\ twin.stats = stats
    /\ twin.outcome = outcome

\* The smallest element of a non-empty set of naturals.
Lowest(I) == CHOOSE i \in I : \A j \in I : i <= j

\* The two-phase algorithm: a valid line with the tag if there is one,
\* otherwise the first invalid line, otherwise the valid line with the
\* smallest last_used (the first such line in slot order).
TwoPhase(lines, tag) ==
    LET n == 0..(E - 1)
        matching == {i \in n : lines[i].validbit /\ lines[i].tagbits = tag}
        invalid  == {i \in n : ~lines[i].validbit}
        oldest   == {i \in n : \A j \in n :
                                 lines[i].timestamp <= lines[j].timestamp}
    IN  IF matching # {}
        THEN [kind |-> "hit", index |-> Lowest(matching)]
        ELSE IF invalid # {}
        THEN [kind |-> "fill", index |-> Lowest(invalid)]
        ELSE [kind |-> "evict", index |-> Lowest(oldest)]

\* The line and the outcome the two-phase algorithm leaves.
TwoPhaseLine(line, kind, tag, op, time) ==
    IF kind = "hit"
    THEN [line EXCEPT !.timestamp = time,
                      !.dirtybit = (@ \/ op = "S")]
    ELSE [validbit |-> TRUE, tagbits |-> tag, timestamp |-> time,
          dirtybit |-> IF op = "S" THEN TRUE
                       ELSE IF kind = "fill" THEN line.dirtybit
                       ELSE FALSE]

TwoPhaseOutcome(line, kind, op) ==
    [i \in 0..(STATNUM - 1) |->
       CASE i = 0 -> kind = "hit"
         [] i = 1 -> kind # "hit"
         [] i = 2 -> kind = "evict"
         [] i = 3 -> op = "S" /\ (kind = "hit" => ~line.dirtybit)
         [] i = 4 -> kind = "evict" /\ line.dirtybit]

\* C14: in every reachable state the single-pass scan of isInCache leaves
\* the outcome flags and the cache that the two-phase algorithm leaves.
C14_SinglePassIsTwoPhase ==
    [][ReplayStep =>
        LET set == SetIndex(address')
            tag == TagOf(address')
            r   == TwoPhase(cache[set], tag)
            old == cache[set][r.index]
        IN  /\ outcome' = TwoPhaseOutcome(old, r.kind, instruction')
            /\ cache' = [cache EXCEPT ![set][r.index] =
                           TwoPhaseLine(old, r.kind, tag, instruction',
                                        linenum)]]_vars

\* C14 witness: a dirty line other than line 0 has just been evicted.
C14_Witness ==
    /\ linenum > 0
    /\ E >= 2
    /\ outcome[2] /\ outcome[4]
    /\ cache[lastSet][1].timestamp = linenum - 1

\* The invalid lines of set.
InvalidLines(set) == {i \in 0..(E - 1) : ~cache[set][i].validbit}

\* C15: a miss signals eviction exactly when every line of the set was
\* valid; otherwise it fills the lowest-indexed invalid line (valid, the
\* tag computed, timestamp the logical time), leaves the other lines of the
\* set alone and signals neither eviction nor evicted_dirty.
C15_FillOrEvict ==
    [][(ReplayStep /\ outcome'[1]) =>
        LET set == SetIndex(address')
        IN  /\ outcome'[2] <=> FullSet(set)
            /\ ~FullSet(set) =>
                 LET i == Lowest(InvalidLines(set))
                 IN  /\ cache'[set][i].validbit
                     /\ cache'[set][i].tagbits = TagOf(address')
                     /\ cache'[set][i].timestamp = linenum
                     /\ \A j \in (0..(E - 1)) \ {i} :
                          cache'[set][j] = cache[set][j]
                     /\ ~outcome'[2]
                     /\ ~outcome'[4]]_vars

\* C15 witness: a miss has just filled line 1 of a set, line 0 being valid.
C15_Witness ==
    /\ linenum > 0
    /\ E >= 2
    /\ outcome[1] /\ ~outcome[2]
    /\ cache[lastSet][0].validbit
    /\ cache[lastSet][1].validbit
    /\ cache[lastSet][1].timestamp = linenum - 1

\* C16: after every access the block accessed is resident as a valid line
\* with the tag computed and timestamp the record's 0-based position, and
\* that line is dirty if the access is a Store.
C16_AccessedBlockResident ==
    linenum > 0 =>
      \E i \in 0..(E - 1) :
        LET line == cache[SetIndex(address)][i]
        IN  /\ line.validbit
            /\ line.tagbits = TagOf(address)
            /\ line.timestamp = linenum - 1
            /\ instruction = "S" => line.dirtybit

\* C16 witness: a Store hit, a Store fill and a Store that evicted a clean
\* line have been replayed, the last access being the hit.
C16_Witness ==
    /\ linenum >= 3
    /\ instruction = "S"
    /\ outcome[0]
    /\ stats.evictions > 0
    /\ stats.dirty_evictions = 0
    /\ stats.dirty_bytes > 0

\* The line the victim search of isInCache selects for addr.
VictimFound(addr) == Scan(cache[SetIndex(addr)], TagOf(addr), 0, linenum, 0)

\* C17: at the start of processing record linenum every valid line has a
\* timestamp below linenum, the valid lines of a set have pairwise distinct
\* timestamps, and the victim search on a full set (for an address not
\* resident) selects a valid line, the one with the strictly smallest
\* timestamp.
C17_TimestampsDistinct ==
    /\ \A set \in 0..(S - 1) : \A i \in 0..(E - 1) :
         cache[set][i].validbit => cache[set][i].timestamp < linenum
    /\ \A set \in 0..(S - 1) : \A i, j \in 0..(E - 1) :
         (i # j /\ cache[set][i].validbit /\ cache[set][j].validbit)
           => cache[set][i].timestamp # cache[set][j].timestamp
    /\ \A addr \in Addresses :
         (FullSet(SetIndex(addr)) /\ ~Resident(SetIndex(addr), TagOf(addr)))
           => LET set == SetIndex(addr)
                  r   == VictimFound(addr)
              IN  /\ ~r.hit /\ ~r.notFull
                  /\ cache[set][r.index].validbit
                  /\ cache[set][r.index].timestamp < linenum
                  /\ \A j \in (0..(E - 1)) \ {r.index} :
                       cache[set][r.index].timestamp < cache[set][j].timestamp

\* C17 witness: a full set of at least two lines whose line 0 was used after
\* line 1, with a record still to process.
C17_Witness ==
    /\ E >= 2
    /\ pc = "replay"
    /\ \E set \in 0..(S - 1) :
         /\ FullSet(set)
         /\ cache[set][0].timestamp > cache[set][1].timestamp
         /\ cache[set][1].timestamp > 0

\* The valid lines of every set of c are a prefix of its slots and every
\* invalid line is clean with tag 0 and timestamp 0.
ValidPrefix(c) ==
    \A set \in DOMAIN c : \A i \in DOMAIN c[set] :
      /\ c[set][i].validbit => \A j \in 0..(i - 1) : c[set][j].validbit
      /\ ~c[set][i].validbit => /\ ~c[set][i].dirtybit
                                /\ c[set][i].tagbits = {}
                                /\ c[set][i].timestamp = 0

\* C18: the valid lines of each set are a prefix of its slots and every
\* invalid line is clean with tag 0 and timestamp 0, initially and after
\* every step, and a valid line stays valid.
C18_ValidPrefix ==
    /\ ValidPrefix(cache)
    /\ [][/\ ValidPrefix(cache')
          /\ \A set \in DOMAIN cache : \A i \in DOMAIN cache[set] :
               cache[set][i].validbit => cache'[set][i].validbit]_vars

\* C18 witness: after a hit and at least three records, a set of at least
\* two lines has line 0 valid and its last line invalid.
C18_Witness ==
    /\ E >= 2
    /\ linenum >= 3
    /\ stats.hits > 0
    /\ \E set \in 0..(S - 1) :
         cache[set][0].validbit /\ ~cache[set][E - 1].validbit

\* The slots (set, line) of the cache.
Slots == (0..(S - 1)) \X (0..(E - 1))

\* C19: a call changes at most one line, a line of the set the address
\* selects; every other line of the cache keeps all its fields; on a hit the
\* line changed is the hit line and it keeps its valid bit and tag.
C19_Frame ==
    [][ReplayStep =>
        LET set == SetIndex(address')
            changed == {p \in Slots : cache'[p[1]][p[2]] # cache[p[1]][p[2]]}
        IN  /\ Cardinality(changed) <= 1
            /\ \A p \in changed : p[1] = set
            /\ DOMAIN cache' = DOMAIN cache
            /\ \A k \in DOMAIN cache : DOMAIN cache'[k] = DOMAIN cache[k]
            /\ outcome'[0] =>
                 /\ Resident(set, TagOf(address'))
                 /\ \A p \in changed :
                      /\ p[2] = LineOf(set, TagOf(address'))
                      /\ cache'[p[1]][p[2]].validbit = cache[p[1]][p[2]].validbit
                      /\ cache'[p[1]][p[2]].tagbits = cache[p[1]][p[2]].tagbits]_vars

\* C19 witness: a hit on line 1 of set 0 while another set holds a valid
\* line.
C19_Witness ==
    /\ linenum > 0
    /\ S >= 2
    /\ E >= 2
    /\ outcome[0]
    /\ lastSet = 0
    /\ cache[0][1].timestamp = linenum - 1
    /\ cache[1][0].validbit

\* The number of accesses so far that signaled became_dirty.
BecameDirtyCount == Cardinality({k \in 1..Len(outcomes) : outcomes[k][3]})

\* dirty_bytes + dirty_evictions is B times the number of accesses that
\* signaled became_dirty, dirty_evictions is at most B times evictions and
\* evicted_dirty was signaled only together with eviction.
DirtyAccounting(st, outs) ==
    /\ st.dirty_bytes + st.dirty_evictions
         = B * Cardinality({k \in 1..Len(outs) : outs[k][3]})
    /\ st.dirty_evictions <= B * st.evictions
    /\ \A k \in 1..Len(outs) : outs[k][4] => outs[k][2]

\* C20: DirtyAccounting holds initially and after every step, and
\* dirty_evictions never decreases.
C20_DirtyAccounting ==
    /\ DirtyAccounting(stats, outcomes)
    /\ [][/\ DirtyAccounting(stats', outcomes')
          /\ stats'.dirty_evictions >= stats.dirty_evictions]_vars

\* C20 witness: a dirty line and a clean line have been evicted and a dirty
\* line is resident.
C20_Witness ==
    /\ stats.dirty_evictions > 0
    /\ stats.dirty_evictions < B * stats.evictions
    /\ stats.dirty_bytes > 0
    /\ BecameDirtyCount >= 2

====
